---- MODULE Spec2Model ----
(***************************************************************************)
(* A model of lufia/httpclientutil: the retry engine                       *)
(* (RetriableTransport.RoundTrip), the Retry-After parser                  *)
(* (ParseRetryAfter) and the two chain builders (Pipeline, ContinueWith);  *)
(* concurrent RoundTrip calls against Close; and the two decorators whose  *)
(* code is not in the source tree, the lifecycle guard (ClosableTransport) *)
(* and the concurrency limiter, as the specification describes them.       *)
(*                                                                         *)
(* Durations and Go ints are 64-bit two's-complement words in the program. *)
(* TLC's integers are narrower than that, so the model keeps the same      *)
(* arithmetic at a reduced width: a word has IntBits bits and one second   *)
(* is Second ticks.  Everything that depends on the width (the range of    *)
(* strconv.Atoi, the wrap-around of time.Duration(n) * time.Second, the    *)
(* saturation of Time.Sub) is written in terms of IntBits, as the program  *)
(* is written in terms of 64.                                              *)
(***************************************************************************)
EXTENDS Integers, Sequences, FiniteSets, TLC

\* ------------------------------------------------- word width and bounds
\* Width of int and of time.Duration (64 in the program).
IntBits == 7
\* time.Second, in ticks of time.Duration (1e9 in the program).
Second == 10
\* Longest Retry-After text the parser is tried on.
MaxLen == 3
\* Cap on the inner-sender invocations of one RoundTrip call.
MaxAttempts == 4
\* Cap on the wrappers registered over all clients of a chain run.
MaxRegistered == 3
\* Longest argument list of one Pipeline or ContinueWith call.
MaxGroup == 2
\* Deepest nesting of round trippers a request is followed into.
MaxDepth == 4

MaxInt == 2 ^ (IntBits - 1) - 1
MinInt == 0 - 2 ^ (IntBits - 1)

\* Two's-complement wrap-around of a Go integer operation.
Wrap(x) == ((x - MinInt) % (2 ^ IntBits)) + MinInt

\* Saturation, as time.Time.Sub does it.
Saturate(x) == IF x > MaxInt THEN MaxInt ELSE IF x < MinInt THEN MinInt ELSE x

\* ------------------------------------------------------------ header texts
Digits == {"0", "1", "9"}
Chars == Digits \cup {"-", "+", "a"}
DigitVal(ch) == CASE ch = "0" -> 0 [] ch = "1" -> 1 [] ch = "9" -> 9

\* Instants, in ticks, that "now" and an HTTP date are drawn from.
Times == {0, 20, 50, 200}

Strings == UNION {[1..n -> Chars] : n \in 0..MaxLen}

\* A header value is a text over Chars, or the text of an HTTP date that
\* denotes the instant `at` (its characters are not spelled out: an HTTP date
\* is never a decimal integer and always parses as a date).
Text(s) == [kind |-> "chars", text |-> s, at |-> 0]
HTTPDate(t) == [kind |-> "date", text |-> <<>>, at |-> t]
HeaderValues == {Text(s) : s \in Strings} \cup {HTTPDate(t) : t \in Times}
\* http.Header.Get gives "" for a header that is absent.
Absent == Text(<<>>)

\* ------------------------------------------------------------- strconv.Atoi
RECURSIVE DecimalValue(_)
DecimalValue(s) ==
    IF Len(s) = 0 THEN 0
    ELSE 10 * DecimalValue(SubSeq(s, 1, Len(s) - 1)) + DigitVal(s[Len(s)])

\* strconv.Atoi: an optional sign, then one or more decimal digits; a value
\* outside the int range is a range error.
Atoi(v) ==
    IF v.kind # "chars" THEN [n |-> 0, err |-> "syntax"]
    ELSE LET s == v.text
             signed == Len(s) > 0 /\ s[1] \in {"-", "+"}
             body == IF signed THEN SubSeq(s, 2, Len(s)) ELSE s
         IN  IF Len(body) = 0 \/ \E i \in 1..Len(body) : body[i] \notin Digits
             THEN [n |-> 0, err |-> "syntax"]
             ELSE LET m == DecimalValue(body)
                      n == IF signed /\ s[1] = "-" THEN 0 - m ELSE m
                  IN  IF n > MaxInt \/ n < MinInt
                      THEN [n |-> Saturate(n), err |-> "range"]
                      ELSE [n |-> n, err |-> "nil"]

\* http.ParseTime: the instant of an HTTP date, an error for any other text.
ParseTime(v) ==
    IF v.kind = "date" THEN [t |-> v.at, err |-> "nil"]
    ELSE [t |-> 0, err |-> "parse"]

\* time.Time.Sub: the difference, saturated to the range of time.Duration.
Sub(t, now) == Saturate(t - now)

\* -------------------------------------------------------------- responses
Statuses == {200, 301, 404, 429, 500, 503, 504}
\* retriableStatuses with the 500 entry left out.
retriableStatusesWithout500 == {429, 503, 504}

\* retriableStatuses with the 429 entry left out.
retriableStatusesWithout429 == {500, 503, 504}

retriableStatuses == {429, 500, 503, 504}

\* The retry-count header of a response: the program has no code that sets
\* it, so a response carries whatever the inner sender gave it.
NoRetryCount == [present |-> FALSE, value |-> 0]
OpenBody == [drained |-> FALSE, closed |-> FALSE]

Response(status, retryAfter) ==
    [nil |-> FALSE, StatusCode |-> status, RetryAfter |-> retryAfter,
     RetryCount |-> NoRetryCount, Body |-> OpenBody]
NilResponse ==
    [nil |-> TRUE, StatusCode |-> 0, RetryAfter |-> Absent,
     RetryCount |-> NoRetryCount, Body |-> OpenBody]

\* ---------------------------------------------------------- ParseRetryAfter
\* ParseRetryAfter with the 429 case left out of its switch.
ParseRetryAfterOnly503(resp, now) ==
    IF resp.StatusCode \notin {301, 503} THEN 0
    ELSE LET s == resp.RetryAfter
             a == Atoi(s)
             t == ParseTime(s)
         IN  IF s = Absent THEN 0
             ELSE IF a.err = "nil"
                  THEN (IF a.n < 0 THEN 0 ELSE Wrap(a.n * Second))
                  ELSE IF t.err # "nil" THEN 0 ELSE Sub(t.t, now)

\* ParseRetryAfter that takes the magnitude of a negative integer.
ParseRetryAfterMagnitude(resp, now) ==
    IF resp.StatusCode \notin {301, 429, 503} THEN 0
    ELSE LET s == resp.RetryAfter
             a == Atoi(s)
             t == ParseTime(s)
         IN  IF s = Absent THEN 0
             ELSE IF a.err = "nil"
                  THEN (IF a.n < 0 THEN Wrap((0 - a.n) * Second) ELSE Wrap(a.n * Second))
                  ELSE IF t.err # "nil" THEN 0 ELSE Sub(t.t, now)

ParseRetryAfter(resp, now) ==
    IF resp.StatusCode \notin {301, 429, 503} THEN 0
    ELSE LET s == resp.RetryAfter
             a == Atoi(s)
             t == ParseTime(s)
         IN  IF s = Absent THEN 0
             ELSE IF a.err = "nil"
                  THEN (IF a.n < 0 THEN 0 ELSE Wrap(a.n * Second))
                  ELSE IF t.err # "nil" THEN 0 ELSE Sub(t.t, now)

\* ------------------------------------------------------------------ errors
Err(name, temporaryer, temporary) ==
    [nil |-> FALSE, name |-> name, temporaryer |-> temporaryer,
     temporary |-> temporary]
NilErr == [nil |-> TRUE, name |-> "nil", temporaryer |-> FALSE, temporary |-> FALSE]

\* What an inner sender may fail with: an error whose Temporary() is true, one
\* whose Temporary() is false, and one without the method.
InnerErrors ==
    {Err("tError(true)", TRUE, TRUE), Err("tError(false)", TRUE, FALSE),
     Err("errors.New", FALSE, FALSE)}

\* What a Waiter's Wait may fail with: the policy's limit, and the context's
\* deadline (context.DeadlineExceeded has a Temporary method returning true).
WaitErrors ==
    {Err("backoff: limit", FALSE, FALSE), Err("context deadline exceeded", TRUE, TRUE)}

\* isTemporary that asks for the method and not for its answer.
isTemporaryIgnoresResult(err) == (~err.nil) /\ err.temporaryer

isTemporary(err) == (~err.nil) /\ err.temporaryer /\ err.temporary

\* ------------------------------------------------------------------- state
VARIABLES
    pc,          \* where the RoundTrip call stands
    wg,          \* RetriableTransport.wg: the calls in progress
    last,        \* resp, err of the latest t.RoundTrip(req)
    ret,         \* what RoundTrip returned
    nSend,       \* inner-sender invocations of this call
    nWait,       \* w.Wait calls of this call
    nSetNext,    \* w.SetNext calls of this call
    nTemp,       \* inner outcomes so far that were temporary errors
    nRetriable,  \* inner outcomes so far that were retriable-status responses
    waited,      \* the result of the Wait made since the latest send, if any
    setNext,     \* the argument of the SetNext made since the latest send, if any
    discarded,   \* the bodies of the responses the call dropped, as it left them
    reqDone,     \* whether req.Context() is cancelled
    parsedAt,    \* time.Now() as given to ParseRetryAfter for the latest response
    parsePc,     \* where the ParseRetryAfter run stands
    parseIn,     \* its arguments
    parseOut,    \* its result
    cTransport,  \* c.Transport of each client, a Transporter (Pipeline)
    cChain,      \* c.Transport of each client, a WithTransport closure (ContinueWith)
    parent,      \* roundTripperFunc.t of each Transporter
    groups,      \* the argument lists of the chain-building calls, per client
    initial,     \* c.Transport of each client before any chain-building call
    rq,          \* the request in flight through a chain
    ctClosed,    \* the closed flag of the ClosableTransport
    ctCount,     \* its in-flight counter
    ctSend,      \* where each caller's RoundTrip through it stands
    ctClose,     \* where the Close call stands
    callPc,      \* where each of the concurrent RoundTrip calls stands
    closeReturned, \* whether RetriableTransport.Close has returned
    callW,       \* the waiter w of each call, and what the call did with waiters
    madeFor,     \* for each waiter instance, the call whose p.waiter() made it
    semHeld,     \* the units of the limiter's semaphore that are taken
    semBuilt,    \* how many semaphores the limiter has constructed
    lim          \* where each caller's Send through the limiter stands

retryVars ==
    <<pc, wg, last, ret, nSend, nWait, nSetNext, nTemp, nRetriable, waited,
      setNext, discarded, reqDone,
                   parsedAt>>

parseVars == <<parsePc, parseIn, parseOut>>

chainVars == <<cTransport, cChain, parent, groups, initial, rq>>

closableVars == <<ctClosed, ctCount, ctSend, ctClose>>

guardVars == <<callPc, closeReturned, callW, madeFor>>

limiterVars == <<semHeld, semBuilt, lim>>

auxVars == <<closableVars, guardVars, limiterVars>>

\* The variables of one RoundTrip call, without the transport's shared p.wg.
retryLocals ==
    <<pc, last, ret, nSend, nWait, nSetNext, nTemp, nRetriable, waited, setNext,
      discarded, reqDone,
                   parsedAt>>

vars == <<retryVars, parseVars, chainVars, auxVars>>

\* ------------------------------------------------- callers of shared decorators
NumCallers == 3
Callers == 1..NumCallers

NoSend == [pc |-> "idle", afterClose |-> FALSE, inner |-> FALSE, counted |-> FALSE,
           res |-> "none"]

ClosableIdle ==
    /\ ctClosed = FALSE
    /\ ctCount = 0
    /\ ctSend = [p \in Callers |-> NoSend]
    /\ ctClose = "idle"

\* Waiter instances: two for each caller, so that a new call can always be
\* given an instance that neither another call nor the caller's previous call
\* holds (0 is no instance).
Waiters == 1..(2 * NumCallers)
NoWaiter == [w |-> 0, made |-> 0, used |-> {}]

GuardIdle ==
    /\ callPc = [p \in Callers |-> "idle"]
    /\ closeReturned = FALSE
    /\ callW = [p \in Callers |-> NoWaiter]
    /\ madeFor = [i \in Waiters |-> 0]

NoLimited == [pc |-> "idle", units |-> 0, res |-> "none"]

LimiterIdle ==
    /\ semHeld = 0
    /\ semBuilt = 0
    /\ lim = [p \in Callers |-> NoLimited]

AuxIdle == ClosableIdle /\ GuardIdle /\ LimiterIdle

\* ------------------------------------------------- RetriableTransport.RoundTrip
\* The Retry-After values the inner sender's responses are drawn from: none, a
\* positive integer, a negative one, no number, an integer whose seconds do not
\* fit a Duration, a negative integer of two digits, a date.
EngineHeaders ==
    {Absent, Text(<<"1">>), Text(<<"-", "1">>), Text(<<"a">>), Text(<<"1", "9">>),
     Text(<<"-", "9", "9">>), HTTPDate(20), HTTPDate(200)}

\* What t.RoundTrip(req) may answer: a response, an error, or (from a sender
\* that breaks the RoundTripper contract) an error together with a response.
InnerOutcomes ==
    {[resp |-> Response(st, h), err |-> NilErr] : st \in Statuses, h \in EngineHeaders}
        \cup {[resp |-> NilResponse, err |-> e] : e \in InnerErrors}
        \cup {[resp |-> Response(503, Absent), err |-> Err("errors.New", FALSE, FALSE)]}

NoOutcome == [resp |-> NilResponse, err |-> NilErr]
NoCall == [called |-> FALSE, err |-> NilErr, ctx |-> "none", reqDone |-> FALSE]

\* ctx := context.Background(): the context RoundTrip hands to every Wait.
WaitContext == "Background"

\* Whether a context is done: context.Background() never is, req.Context() is
\* once the caller has cancelled it.
ContextDone(ctx) == ctx = "req.Context()" /\ reqDone

\* context.Canceled, the error of a cancelled context; it has no Temporary
\* method.
Canceled == Err("context canceled", FALSE, FALSE)

\* What Wait(ctx) may return: the context's error when the context is done,
\* otherwise nil or a failure of the waiter's own.
WaitResults(ctx) == IF ContextDone(ctx) THEN {Canceled} ELSE WaitErrors \cup {NilErr}

\* The record of a Wait that returned e.
Waited(e) == [called |-> TRUE, err |-> e, ctx |-> WaitContext, reqDone |-> reqDone]
NoSetNext == [called |-> FALSE, d |-> 0]

RetryIdle ==
    /\ pc = "idle"
    /\ wg = 0
    /\ last = NoOutcome
    /\ ret = NoOutcome
    /\ nSend = 0
    /\ nWait = 0
    /\ nSetNext = 0
    /\ nTemp = 0
    /\ nRetriable = 0
    /\ waited = NoCall
    /\ setNext = NoSetNext
    /\ discarded = {}
    /\ reqDone = FALSE
    /\ parsedAt = 0

\* return resp, err (with the deferred p.wg.Done()).
Return(r, e) ==
    /\ pc' = "done"
    /\ ret' = [resp |-> r, err |-> e]
    /\ wg' = wg - 1

\* p.wg.Add(1); t := p.transport(); w := p.waiter().
Begin ==
    /\ pc \in {"idle", "done"}
    /\ pc' = "send"
    /\ wg' = wg + 1
    /\ last' = NoOutcome
    /\ ret' = NoOutcome
    /\ nSend' = 0
    /\ nWait' = 0
    /\ nSetNext' = 0
    /\ nTemp' = 0
    /\ nRetriable' = 0
    /\ waited' = NoCall
    /\ setNext' = NoSetNext
    /\ discarded' = {}
    /\ reqDone' = FALSE
    /\ parsedAt' = 0
    /\ UNCHANGED <<parseVars, chainVars, auxVars>>

\* The test on a delay that ignores its sign.
OverridesNonZero(d) == d # 0

\* if d := ParseRetryAfter(resp, time.Now()); d > 0: whether the delay is
\* handed to SetNext.
Overrides(d) == d > 0

\* resp, err := t.RoundTrip(req) and what follows it up to the next Wait or
\* return; `out` is what the inner sender answers, `now` is time.Now().
Send(out, now) ==
    /\ pc = "send"
    /\ nSend < MaxAttempts
    /\ nSend' = nSend + 1
    /\ last' = out
    /\ waited' = NoCall
    /\ UNCHANGED <<nWait, reqDone>>
    /\ IF ~out.err.nil
       THEN /\ nTemp' = IF out.err.temporaryer /\ out.err.temporary THEN nTemp + 1 ELSE nTemp
            /\ UNCHANGED <<nRetriable, nSetNext, discarded>>
            /\ parsedAt' = 0
            /\ setNext' = NoSetNext
            /\ IF ~isTemporary(out.err)
               THEN Return(NilResponse, out.err)
               ELSE pc' = "waitErr" /\ UNCHANGED <<ret, wg>>
       ELSE IF out.resp.StatusCode \notin retriableStatuses
            THEN /\ Return(out.resp, NilErr)
                 /\ setNext' = NoSetNext
                 /\ UNCHANGED <<nTemp, nRetriable, nSetNext, discarded>>
                 /\ parsedAt' = 0
            ELSE LET d == ParseRetryAfter(out.resp, now)
                 IN  /\ parsedAt' = now
                     /\ IF Overrides(d)
                        THEN setNext' = [called |-> TRUE, d |-> d] /\ nSetNext' = nSetNext + 1
                        ELSE setNext' = NoSetNext /\ UNCHANGED nSetNext
                     /\ nRetriable' = nRetriable + 1
                     /\ discarded' = discarded \cup {out.resp.Body}
                     /\ pc' = "waitStatus"
                     /\ UNCHANGED <<nTemp, ret, wg>>
    /\ UNCHANGED <<parseVars, chainVars, auxVars>>

\* The error path with a bare continue, the Wait left out.
WaitAfterErrorSkipped(e) ==
    /\ pc = "waitErr"
    /\ pc' = "send"
    /\ UNCHANGED <<wg, last, ret, nSend, nWait, nSetNext, nTemp, nRetriable, waited,
                   setNext, discarded, reqDone,
                   parsedAt>>
    /\ UNCHANGED <<parseVars, chainVars, auxVars>>

\* w.Wait(ctx); continue: the Wait after a temporary error, its result dropped.
WaitAfterError(e) ==
    /\ pc = "waitErr"
    /\ nWait' = nWait + 1
    /\ waited' = Waited(e)
    /\ pc' = "send"
    /\ UNCHANGED <<wg, last, ret, nSend, nSetNext, nTemp, nRetriable, setNext, discarded,
                   reqDone, parsedAt>>
    /\ UNCHANGED <<parseVars, chainVars, auxVars>>

\* if err := w.Wait(ctx); err != nil { return nil, err }: the Wait after a
\* retriable status.
WaitAfterStatus(e) ==
    /\ pc = "waitStatus"
    /\ nWait' = nWait + 1
    /\ waited' = Waited(e)
    /\ IF e.nil THEN pc' = "send" /\ UNCHANGED <<ret, wg>>
       ELSE Return(NilResponse, e)
    /\ UNCHANGED <<last, nSend, nSetNext, nTemp, nRetriable, setNext, discarded, reqDone,
                   parsedAt>>
    /\ UNCHANGED <<parseVars, chainVars, auxVars>>

\* The caller cancels the request's context while the call is in progress.
CancelRequest ==
    /\ pc \in {"send", "waitErr", "waitStatus"}
    /\ ~reqDone
    /\ reqDone' = TRUE
    /\ UNCHANGED <<pc, wg, last, ret, nSend, nWait, nSetNext, nTemp, nRetriable, waited,
                   setNext, discarded, parsedAt>>
    /\ UNCHANGED <<parseVars, chainVars, auxVars>>

\* ------------------------------------------------------------------ chains
Clients == {"c1", "c2"}
\* The wrappers: Transporter objects for Pipeline, Sender values for
\* ContinueWith.
Wrappers == {"A", "B", "C"}
\* A chain built by WithTransport: the Senders of its nested closures, the
\* outermost first, and the transport the innermost closure captured.
Chain(senders, base) == [senders |-> senders, base |-> base]
NilChain == Chain(<<>>, "nil")

Groups == UNION {[1..n -> Wrappers] : n \in 1..MaxGroup}

RECURSIVE Flatten(_)
Flatten(gs) == IF gs = <<>> THEN <<>> ELSE Head(gs) \o Flatten(Tail(gs))
Registered(c) == Flatten(groups[c])
RegisteredCount == Len(Registered("c1")) + Len(Registered("c2"))

NoRequest ==
    [state |-> "idle", client |-> "c1", cur |-> "nil", rest |-> NilChain,
     stack |-> <<>>, trace |-> <<>>]

ParseIdle ==
    /\ parsePc = "idle"
    /\ parseIn = [resp |-> NilResponse, now |-> 0]
    /\ parseOut = 0

ChainIdle ==
    /\ cTransport = [c \in Clients |-> "nil"]
    /\ cChain = [c \in Clients |-> NilChain]
    /\ parent = [w \in Wrappers |-> "nil"]
    /\ groups = [c \in Clients |-> <<>>]
    /\ initial = [c \in Clients |-> "nil"]
    /\ rq = NoRequest

\* A nil round tripper stands for http.DefaultTransport.
OrDefault(t) == IF t = "nil" THEN "DefaultTransport" ELSE t

Event(who, what) == <<who, what>>

\* ---------------------------------------------------------------- Pipeline
\* The loop of Pipeline: p.SetParent(t); t = p, for each p of v in order.
RECURSIVE SetParents(_, _, _)
SetParents(par, t, v) ==
    IF v = <<>> THEN par
    ELSE SetParents([par EXCEPT ![Head(v)] = t], Head(v), Tail(v))

\* Pipeline with the `t = p` of its loop left out.
PipelineNoAdvance(c, v) ==
    /\ rq.state \in {"idle", "done"}
    /\ RegisteredCount + Len(v) <= MaxRegistered
    /\ parent' = [w \in Wrappers |->
                    IF \E i \in 1..Len(v) : v[i] = w THEN cTransport[c] ELSE parent[w]]
    /\ UNCHANGED cTransport
    /\ groups' = [groups EXCEPT ![c] = Append(@, v)]
    /\ rq' = NoRequest
    /\ UNCHANGED <<initial, cChain>>
    /\ UNCHANGED <<retryVars, parseVars, auxVars>>

\* Pipeline(c, v...), called while no request is in flight (c.Transport and
\* p.t are plain fields, written without synchronisation); the record of the
\* finished request is dropped.
Pipeline(c, v) ==
    /\ rq.state \in {"idle", "done"}
    /\ RegisteredCount + Len(v) <= MaxRegistered
    /\ parent' = SetParents(parent, cTransport[c], v)
    /\ cTransport' = [cTransport EXCEPT ![c] = v[Len(v)]]
    /\ groups' = [groups EXCEPT ![c] = Append(@, v)]
    /\ rq' = NoRequest
    /\ UNCHANGED <<initial, cChain>>
    /\ UNCHANGED <<retryVars, parseVars, auxVars>>

\* A request through client c: http.Client sends it to c.Transport, or to
\* the default transport when that is nil.
PipelineRequest(c) ==
    /\ rq.state \in {"idle", "done"}
    /\ rq' = [state |-> "down", client |-> c, cur |-> OrDefault(cTransport[c]),
              rest |-> NilChain, stack |-> <<>>, trace |-> <<>>]
    /\ UNCHANGED <<cTransport, cChain, parent, groups, initial>>
    /\ UNCHANGED <<retryVars, parseVars, auxVars>>

\* roundTripperFunc.RoundTrip: t := p.t, the default transport if nil, then
\* p.f(req, t); f marks its entry and delegates to t.
RoundTripperFuncRoundTrip ==
    /\ rq.state = "down"
    /\ rq.cur \in Wrappers
    /\ Len(rq.stack) < MaxDepth
    /\ rq' = [rq EXCEPT !.trace = Append(@, Event(rq.cur, "entry")),
                        !.stack = Append(@, rq.cur),
                        !.cur = OrDefault(parent[rq.cur])]
    /\ UNCHANGED <<cTransport, cChain, parent, groups, initial>>
    /\ UNCHANGED <<retryVars, parseVars, auxVars>>

\* The base sender answers.
PipelineBase ==
    /\ rq.state = "down"
    /\ rq.cur \notin Wrappers
    /\ rq' = [rq EXCEPT !.trace = Append(@, Event(rq.cur, "send")),
                        !.state = IF rq.stack = <<>> THEN "done" ELSE "up"]
    /\ UNCHANGED <<cTransport, cChain, parent, groups, initial>>
    /\ UNCHANGED <<retryVars, parseVars, auxVars>>

\* The innermost wrapper still running returns (its deferred exit mark).
WrapperReturn ==
    /\ rq.state = "up"
    /\ rq.stack # <<>>
    /\ rq' = [rq EXCEPT !.trace = Append(@, Event(rq.stack[Len(rq.stack)], "exit")),
                        !.stack = SubSeq(@, 1, Len(@) - 1),
                        !.state = IF Len(rq.stack) = 1 THEN "done" ELSE "up"]
    /\ UNCHANGED <<cTransport, cChain, parent, groups, initial>>
    /\ UNCHANGED <<retryVars, parseVars, auxVars>>

InitPipeline ==
    /\ RetryIdle
    /\ ParseIdle
    /\ AuxIdle
    /\ initial \in [Clients -> {"nil", "base"}]
    /\ cTransport = initial
    /\ cChain = [c \in Clients |-> NilChain]
    /\ parent = [w \in Wrappers |-> "nil"]
    /\ groups = [c \in Clients |-> <<>>]
    /\ rq = NoRequest

NextPipeline ==
    \/ \E c \in Clients, v \in Groups : Pipeline(c, v)
    \/ \E c \in Clients : PipelineRequest(c)
    \/ RoundTripperFuncRoundTrip
    \/ PipelineBase
    \/ WrapperReturn

SpecPipeline == InitPipeline /\ [][NextPipeline]_vars

\* ------------------------------------------------------------ ContinueWith
\* WithTransport that nests the new Sender inside the chain.
WithTransportInnermost(p, t) == Chain(Append(t.senders, p), t.base)

\* WithTransport(p, t): a new round tripper, the closure over p and t.
WithTransport(p, t) == Chain(<<p>> \o t.senders, t.base)

\* The loop of ContinueWith: t = WithTransport(r, t), for each r of a in order.
RECURSIVE WithTransports(_, _)
WithTransports(t, a) ==
    IF a = <<>> THEN t ELSE WithTransports(WithTransport(Head(a), t), Tail(a))

\* ContinueWith(c, a...), called while no request is in flight; the record of
\* the finished request is dropped.
ContinueWith(c, a) ==
    /\ rq.state \in {"idle", "done"}
    /\ RegisteredCount + Len(a) <= MaxRegistered
    /\ cChain' = [cChain EXCEPT ![c] = WithTransports(cChain[c], a)]
    /\ groups' = [groups EXCEPT ![c] = Append(@, a)]
    /\ rq' = NoRequest
    /\ UNCHANGED <<cTransport, parent, initial>>
    /\ UNCHANGED <<retryVars, parseVars, auxVars>>

\* A request through client c: http.Client sends it to c.Transport.
ContinueWithRequest(c) ==
    /\ rq.state \in {"idle", "done"}
    /\ rq' = [state |-> "down", client |-> c, cur |-> "nil", rest |-> cChain[c],
              stack |-> <<>>, trace |-> <<>>]
    /\ UNCHANGED <<cTransport, cChain, parent, groups, initial>>
    /\ UNCHANGED <<retryVars, parseVars, auxVars>>

\* The closure of WithTransport: next := t, the default transport if nil, then
\* p.Send(req, next); the Sender marks its entry and delegates to next.
SenderSend ==
    /\ rq.state = "down"
    /\ rq.rest.senders # <<>>
    /\ rq' = [rq EXCEPT !.trace = Append(@, Event(Head(rq.rest.senders), "entry")),
                        !.stack = Append(@, Head(rq.rest.senders)),
                        !.rest = Chain(Tail(rq.rest.senders), rq.rest.base)]
    /\ UNCHANGED <<cTransport, cChain, parent, groups, initial>>
    /\ UNCHANGED <<retryVars, parseVars, auxVars>>

\* The base sender answers: the transport the innermost closure captured, or
\* the default transport when that is nil.
ContinueWithBase ==
    /\ rq.state = "down"
    /\ rq.rest.senders = <<>>
    /\ rq' = [rq EXCEPT !.trace = Append(@, Event(OrDefault(rq.rest.base), "send")),
                        !.state = IF rq.stack = <<>> THEN "done" ELSE "up"]
    /\ UNCHANGED <<cTransport, cChain, parent, groups, initial>>
    /\ UNCHANGED <<retryVars, parseVars, auxVars>>

InitContinueWith ==
    /\ RetryIdle
    /\ ParseIdle
    /\ AuxIdle
    /\ initial \in [Clients -> {"nil", "base"}]
    /\ cChain = [c \in Clients |-> Chain(<<>>, initial[c])]
    /\ cTransport = [c \in Clients |-> "nil"]
    /\ parent = [w \in Wrappers |-> "nil"]
    /\ groups = [c \in Clients |-> <<>>]
    /\ rq = NoRequest

NextContinueWith ==
    \/ \E c \in Clients, a \in Groups : ContinueWith(c, a)
    \/ \E c \in Clients : ContinueWithRequest(c)
    \/ SenderSend
    \/ ContinueWithBase
    \/ WrapperReturn

SpecContinueWith == InitContinueWith /\ [][NextContinueWith]_vars

Init == RetryIdle /\ ParseIdle /\ ChainIdle /\ AuxIdle

Next ==
    \/ Begin
    \/ \E out \in InnerOutcomes, now \in Times : Send(out, now)
    \/ \E e \in WaitResults(WaitContext) : WaitAfterError(e)
    \/ \E e \in WaitResults(WaitContext) : WaitAfterStatus(e)
    \/ CancelRequest

Spec == Init /\ [][Next]_vars

\* ---------------------------------------------- calls with a bounded waiter
\* A waiter with a bounded retry policy, as backoff.Backoff{Limit: n}: its
\* first WaitLimit Waits succeed and every later one fails.
WaitLimit == 2

BoundedWait == IF nWait < WaitLimit THEN NilErr ELSE Err("backoff: limit", FALSE, FALSE)

NextBounded ==
    \/ Begin
    \/ \E out \in InnerOutcomes, now \in Times : Send(out, now)
    \/ WaitAfterError(BoundedWait)
    \/ WaitAfterStatus(BoundedWait)

SpecBounded == Init /\ [][NextBounded]_vars

\* ------------------------------------- concurrent RoundTrip calls and Close
\* Several goroutines call RoundTrip on one RetriableTransport while another
\* calls Close; each call is followed through the points where it can be
\* overtaken: before a send, inside the inner sender, inside a Wait.
InFlight == {"send", "inner", "waitErr", "waitStatus"}

\* return resp, err of call p, with the deferred p.wg.Done().
CallReturn(p) ==
    /\ callPc' = [callPc EXCEPT ![p] = "done"]
    /\ wg' = wg - 1

\* A waiter() that hands every call the same instance.
waiterCached(p) == 1

\* p.waiter(), called by p: p.NewWaiter(), or &backoff.Backoff{} when NewWaiter
\* is nil; either way a new instance, here the one of the caller's two that
\* its previous call did not have.
waiter(p) == IF callW[p].w = 2 * p - 1 THEN 2 * p ELSE 2 * p - 1

\* Call p invokes Wait or SetNext on its w.
UseWaiter(p) == [callW EXCEPT ![p].used = @ \cup {callW[p].w}]

\* p.wg.Add(1); defer p.wg.Done(); w := p.waiter().  The instance of p's
\* previous call is garbage from here on.
CallBegin(p) ==
    /\ callPc[p] \in {"idle", "done"}
    /\ callPc' = [callPc EXCEPT ![p] = "send"]
    /\ wg' = wg + 1
    /\ LET w == waiter(p)
       IN  /\ callW' = [callW EXCEPT ![p] = [w |-> w, made |-> 1, used |-> {}]]
           /\ madeFor' = [i \in Waiters |->
                            IF i = w THEN p ELSE IF madeFor[i] = p THEN 0 ELSE madeFor[i]]
    /\ UNCHANGED <<retryLocals, closeReturned, parseVars, chainVars, closableVars,
                   limiterVars>>

\* What the inner sender answers a concurrent call with: each kind of error,
\* a final response, and retriable responses without and with a delay.
CallOutcomes ==
    {[resp |-> Response(st, h), err |-> NilErr] :
        st \in {200, 503}, h \in {Absent, Text(<<"1">>)}}
        \cup {[resp |-> NilResponse, err |-> e] : e \in InnerErrors}

\* t.RoundTrip(req) is entered.
CallInvoke(p) ==
    /\ callPc[p] = "send"
    /\ callPc' = [callPc EXCEPT ![p] = "inner"]
    /\ UNCHANGED <<retryVars, closeReturned, callW, madeFor, parseVars, chainVars,
                   closableVars, limiterVars>>

\* t.RoundTrip(req) answers `out`: return on a fatal error or a final
\* response; otherwise go to the Wait, after w.SetNext(d) if a retriable
\* response names a delay.
CallAnswer(p, out, now) ==
    /\ callPc[p] = "inner"
    /\ IF ~out.err.nil
       THEN /\ IF ~isTemporary(out.err)
               THEN CallReturn(p)
               ELSE callPc' = [callPc EXCEPT ![p] = "waitErr"] /\ UNCHANGED wg
            /\ UNCHANGED callW
       ELSE IF out.resp.StatusCode \notin retriableStatuses
            THEN CallReturn(p) /\ UNCHANGED callW
            ELSE /\ callPc' = [callPc EXCEPT ![p] = "waitStatus"]
                 /\ callW' = IF Overrides(ParseRetryAfter(out.resp, now))
                              THEN UseWaiter(p) ELSE callW
                 /\ UNCHANGED wg
    /\ UNCHANGED <<retryLocals, closeReturned, madeFor, parseVars, chainVars,
                   closableVars, limiterVars>>

\* w.Wait(ctx); continue.
CallWaitAfterError(p, e) ==
    /\ callPc[p] = "waitErr"
    /\ callPc' = [callPc EXCEPT ![p] = "send"]
    /\ callW' = UseWaiter(p)
    /\ UNCHANGED <<retryVars, closeReturned, madeFor, parseVars, chainVars,
                   closableVars, limiterVars>>

\* The status path returning on a Wait failure without the deferred Done.
CallWaitAfterStatusNoDone(p, e) ==
    /\ callPc[p] = "waitStatus"
    /\ callPc' = [callPc EXCEPT ![p] = IF e.nil THEN "send" ELSE "done"]
    /\ callW' = UseWaiter(p)
    /\ UNCHANGED <<retryVars, closeReturned, madeFor, parseVars, chainVars,
                   closableVars, limiterVars>>

\* if err := w.Wait(ctx); err != nil { return nil, err }.
CallWaitAfterStatus(p, e) ==
    /\ callPc[p] = "waitStatus"
    /\ callW' = UseWaiter(p)
    /\ IF e.nil THEN callPc' = [callPc EXCEPT ![p] = "send"] /\ UNCHANGED wg
       ELSE CallReturn(p)
    /\ UNCHANGED <<retryLocals, closeReturned, madeFor, parseVars, chainVars,
                   closableVars, limiterVars>>

\* RetriableTransport.Close: return nil.
Close ==
    /\ closeReturned' = TRUE
    /\ UNCHANGED <<retryVars, callPc, callW, madeFor, parseVars, chainVars,
                   closableVars, limiterVars>>

InitGuard == RetryIdle /\ ParseIdle /\ ChainIdle /\ AuxIdle

NextGuard ==
    \/ \E p \in Callers : CallBegin(p)
    \/ \E p \in Callers : CallInvoke(p)
    \/ \E p \in Callers, out \in CallOutcomes, now \in {0} : CallAnswer(p, out, now)
    \/ \E p \in Callers, e \in WaitResults(WaitContext) : CallWaitAfterError(p, e)
    \/ \E p \in Callers, e \in WaitResults(WaitContext) : CallWaitAfterStatus(p, e)
    \/ Close

SpecGuard == InitGuard /\ [][NextGuard]_vars

\* ------------------------------------------------------- ClosableTransport
\* The lifecycle guard: RoundTrip checks the closed flag and, the guard being
\* open, counts itself in before it delegates; the check and the increment are
\* one synchronised step.  `afterClose` records whether Close had been invoked
\* when the call started.

\* RoundTrip without the check of the closed flag.
ClosableRoundTripUnchecked(p) ==
    /\ ctSend[p].pc \in {"idle", "done"}
    /\ ctCount' = ctCount + 1
    /\ ctSend' = [ctSend EXCEPT ![p] =
                    [pc |-> "inner", afterClose |-> ctClose # "idle", inner |-> TRUE,
                     counted |-> TRUE, res |-> "none"]]
    /\ UNCHANGED <<ctClosed, ctClose>>
    /\ UNCHANGED <<retryVars, parseVars, chainVars, guardVars, limiterVars>>

ClosableRoundTrip(p) ==
    /\ ctSend[p].pc \in {"idle", "done"}
    /\ IF ctClosed
       THEN /\ ctSend' = [ctSend EXCEPT ![p] =
                           [pc |-> "done", afterClose |-> ctClose # "idle",
                            inner |-> FALSE, counted |-> FALSE, res |-> "ErrClosed"]]
            /\ UNCHANGED ctCount
       ELSE /\ ctCount' = ctCount + 1
            /\ ctSend' = [ctSend EXCEPT ![p] =
                           [pc |-> "inner", afterClose |-> ctClose # "idle",
                            inner |-> TRUE, counted |-> TRUE, res |-> "none"]]
    /\ UNCHANGED <<ctClosed, ctClose>>
    /\ UNCHANGED <<retryVars, parseVars, chainVars, guardVars, limiterVars>>

\* The inner sender answers and the call counts itself out, on every exit path.
ClosableInnerReturn(p, res) ==
    /\ ctSend[p].pc = "inner"
    /\ ctCount' = ctCount - 1
    /\ ctSend' = [ctSend EXCEPT ![p].pc = "done", ![p].res = res]
    /\ UNCHANGED <<ctClosed, ctClose>>
    /\ UNCHANGED <<retryVars, parseVars, chainVars, guardVars, limiterVars>>

\* Close sets the closed flag, then waits for the counter to reach zero; it
\* may be called again once it has returned.
ClosableClose ==
    /\ ctClose \in {"idle", "returned"}
    /\ ctClosed' = TRUE
    /\ ctClose' = "draining"
    /\ UNCHANGED <<ctCount, ctSend>>
    /\ UNCHANGED <<retryVars, parseVars, chainVars, guardVars, limiterVars>>

ClosableCloseReturn ==
    /\ ctClose = "draining"
    /\ ctCount = 0
    /\ ctClose' = "returned"
    /\ UNCHANGED <<ctClosed, ctCount, ctSend>>
    /\ UNCHANGED <<retryVars, parseVars, chainVars, guardVars, limiterVars>>

InitClosable == RetryIdle /\ ParseIdle /\ ChainIdle /\ AuxIdle

NextClosable ==
    \/ \E p \in Callers : ClosableRoundTrip(p)
    \/ \E p \in Callers, res \in {"response", "error"} : ClosableInnerReturn(p, res)
    \/ ClosableClose
    \/ ClosableCloseReturn

SpecClosable == InitClosable /\ [][NextClosable]_vars

\* ------------------------------------------------------ ConcurrencyLimiter
\* The limiter's Send: build the semaphore on first use (once), acquire one
\* unit unless the request's context is cancelled first, delegate, release.
Limit == 2

\* Send is entered; the semaphore is constructed by the first call only.
LimiterSend(p) ==
    /\ lim[p].pc \in {"idle", "done"}
    /\ lim' = [lim EXCEPT ![p] = [pc |-> "acquiring", units |-> 0, res |-> "none"]]
    /\ semBuilt' = IF semBuilt = 0 THEN 1 ELSE semBuilt
    /\ UNCHANGED semHeld
    /\ UNCHANGED <<retryVars, parseVars, chainVars, closableVars, guardVars>>

\* An acquire that does not look at the semaphore's count.
LimiterAcquireUngated(p) ==
    /\ lim[p].pc = "acquiring"
    /\ semHeld' = semHeld + 1
    /\ lim' = [lim EXCEPT ![p].pc = "inner", ![p].units = 1]
    /\ UNCHANGED semBuilt
    /\ UNCHANGED <<retryVars, parseVars, chainVars, closableVars, guardVars>>

\* The acquire succeeds: a unit is free and the call takes it.
LimiterAcquire(p) ==
    /\ lim[p].pc = "acquiring"
    /\ semHeld < Limit
    /\ semHeld' = semHeld + 1
    /\ lim' = [lim EXCEPT ![p].pc = "inner", ![p].units = 1]
    /\ UNCHANGED semBuilt
    /\ UNCHANGED <<retryVars, parseVars, chainVars, closableVars, guardVars>>

\* The request's context is cancelled while the call waits for a unit: Send
\* returns the cancellation error and has acquired nothing.
LimiterCancelled(p) ==
    /\ lim[p].pc = "acquiring"
    /\ lim' = [lim EXCEPT ![p].pc = "done", ![p].res = "canceled"]
    /\ UNCHANGED <<semHeld, semBuilt>>
    /\ UNCHANGED <<retryVars, parseVars, chainVars, closableVars, guardVars>>

\* A Send that gives its unit back only when the inner sender succeeded.
LimiterInnerReturnKeepsOnError(p, res) ==
    /\ lim[p].pc = "inner"
    /\ IF res = "response"
       THEN semHeld' = semHeld - 1 /\ lim' = [lim EXCEPT ![p] = [pc |-> "done", units |-> 0, res |-> res]]
       ELSE UNCHANGED semHeld /\ lim' = [lim EXCEPT ![p].pc = "done", ![p].res = res]
    /\ UNCHANGED semBuilt
    /\ UNCHANGED <<retryVars, parseVars, chainVars, closableVars, guardVars>>

\* The inner sender answers; the unit is released whatever the answer.
LimiterInnerReturn(p, res) ==
    /\ lim[p].pc = "inner"
    /\ semHeld' = semHeld - lim[p].units
    /\ lim' = [lim EXCEPT ![p] = [pc |-> "done", units |-> 0, res |-> res]]
    /\ UNCHANGED semBuilt
    /\ UNCHANGED <<retryVars, parseVars, chainVars, closableVars, guardVars>>

InitLimiter == RetryIdle /\ ParseIdle /\ ChainIdle /\ AuxIdle

NextLimiter ==
    \/ \E p \in Callers : LimiterSend(p)
    \/ \E p \in Callers : LimiterAcquire(p)
    \/ \E p \in Callers : LimiterCancelled(p)
    \/ \E p \in Callers, res \in {"response", "error"} : LimiterInnerReturn(p, res)

SpecLimiter == InitLimiter /\ [][NextLimiter]_vars

\* ------------------------------------------------------- ParseRetryAfter runs
ParseInputs ==
    [resp : {Response(st, h) : st \in Statuses, h \in HeaderValues}, now : Times]

InitParse ==
    /\ RetryIdle
    /\ ChainIdle
    /\ AuxIdle
    /\ parsePc = "ready"
    /\ parseIn \in ParseInputs
    /\ parseOut = 0

ParseCall ==
    /\ parsePc = "ready"
    /\ parseOut' = ParseRetryAfter(parseIn.resp, parseIn.now)
    /\ parsePc' = "done"
    /\ UNCHANGED parseIn
    /\ UNCHANGED <<retryVars, chainVars, auxVars>>

NextParse == ParseCall

SpecParse == InitParse /\ [][NextParse]_vars

\* ================================================================== claims
\* What the claims mean by a temporary error and by a retriable status.
SelfReportsTemporary(e) == (~e.nil) /\ e.temporaryer /\ e.temporary
IsRetriableResponse(out) ==
    out.err.nil /\ (~out.resp.nil) /\ out.resp.StatusCode \in {429, 500, 503, 504}
IsFinalResponse(out) ==
    out.err.nil /\ (~out.resp.nil) /\ out.resp.StatusCode \notin {429, 500, 503, 504}
IsFatalError(out) == (~out.err.nil) /\ ~SelfReportsTemporary(out.err)

\* C1: when the inner sender fails with a temporary error on exactly its first
\* N invocations and then answers with a non-retriable status, the call has
\* made exactly N Waits and N+1 sends and returns that response, nil error.
C1_RetryCounting ==
    (pc = "done" /\ IsFinalResponse(last) /\ nRetriable = 0)
        => /\ nWait = nTemp
           /\ nSend = nTemp + 1
           /\ ret = [resp |-> last.resp, err |-> NilErr]

C1_Witness ==
    pc = "done" /\ IsFinalResponse(last) /\ nRetriable = 0 /\ nTemp = 3 /\ nWait = 3

\* C2: a non-temporary error or a non-retriable status ends the call at once:
\* RoundTrip returns that error or response unchanged, with no Wait and no
\* SetNext after it (and, the call being over, no further send).
C2_NoRetryOnFinalOutcome ==
    (IsFatalError(last) \/ IsFinalResponse(last))
        => /\ pc = "done"
           /\ ret = [resp |-> IF last.err.nil THEN last.resp ELSE NilResponse,
                     err |-> last.err]
           /\ waited = NoCall
           /\ setNext = NoSetNext

C2_Witness ==
    /\ pc = "done"
    /\ last.err = Err("tError(false)", TRUE, FALSE)
    /\ nSend = 2

\* C3 (as stated): whenever Wait returns an error, on either retry path,
\* RoundTrip returns exactly that error and sends nothing more.
C3_WaitFailureEndsCall ==
    (waited.called /\ ~waited.err.nil)
        => (pc = "done" /\ ret = [resp |-> NilResponse, err |-> waited.err])

\* C4: a response with status 429, 500, 503 or 504 is never returned to the
\* caller; it is followed by a Wait, and when that Wait returns nil the call
\* stands at the next invocation of the inner sender.
C4_RetriableStatusIsRetried ==
    IsRetriableResponse(last)
        => /\ ret.resp.nil
           /\ pc = "waitStatus" \/ waited.called
           /\ (waited.called /\ waited.err.nil)
                => /\ pc = "send"
                   /\ nSend < MaxAttempts
                        => ENABLED (\E out \in InnerOutcomes, now \in Times : Send(out, now))

C4_Witness ==
    /\ IsRetriableResponse(last)
    /\ last.resp.StatusCode = 500
    /\ waited.called /\ waited.err.nil
    /\ pc = "send"

\* C5 (as stated): every response RoundTrip returns carries a retry-count
\* header equal to the number of retries made for the request.
C5_RetryCountHeader ==
    (pc = "done" /\ ~ret.resp.nil)
        => ret.resp.RetryCount = [present |-> TRUE, value |-> nSend - 1]

\* C6 (as stated): the body of every discarded retriable response is fully
\* read and closed before the next send and before RoundTrip returns.
C6_DiscardedBodiesClosed ==
    pc \in {"send", "done"} => \A b \in discarded : b.drained /\ b.closed

\* The integer a Retry-After text denotes, if it is a decimal integer.
IsDecimalInteger(v) ==
    /\ v.kind = "chars"
    /\ LET s == v.text
           body == IF Len(s) > 0 /\ s[1] \in {"-", "+"} THEN SubSeq(s, 2, Len(s)) ELSE s
       IN  Len(body) > 0 /\ \A i \in 1..Len(body) : body[i] \in Digits
IntegerOf(v) ==
    LET s == v.text
        neg == s[1] = "-"
        body == IF s[1] \in {"-", "+"} THEN SubSeq(s, 2, Len(s)) ELSE s
    IN  IF neg THEN 0 - DecimalValue(body) ELSE DecimalValue(body)

\* C7 (as stated): for a retried response, status 429, 500, 503 or 504, whose
\* Retry-After is a positive integer n, SetNext(n seconds) is called before
\* the Wait.
C7_SetNextOnRetryAfter ==
    (/\ pc = "waitStatus"
     /\ IsRetriableResponse(last)
     /\ IsDecimalInteger(last.resp.RetryAfter)
     /\ IntegerOf(last.resp.RetryAfter) > 0)
        => setNext = [called |-> TRUE, d |-> IntegerOf(last.resp.RetryAfter) * Second]

\* C7 (amended): for a retried response with status 429 or 503 whose
\* Retry-After is a positive integer n that fits an int, with n seconds
\* within the range of a Duration, SetNext(n seconds) is called before the
\* Wait.
C7_SetNextOn429And503 ==
    (/\ pc = "waitStatus"
     /\ IsRetriableResponse(last)
     /\ last.resp.StatusCode \in {429, 503}
     /\ IsDecimalInteger(last.resp.RetryAfter)
     /\ IntegerOf(last.resp.RetryAfter) > 0
     /\ IntegerOf(last.resp.RetryAfter) <= MaxInt
     /\ IntegerOf(last.resp.RetryAfter) * Second <= MaxInt)
        => setNext = [called |-> TRUE, d |-> IntegerOf(last.resp.RetryAfter) * Second]

C7_Witness ==
    /\ pc = "waitStatus"
    /\ last.resp.StatusCode = 429
    /\ last.resp.RetryAfter = Text(<<"1">>)
    /\ setNext = [called |-> TRUE, d |-> Second]
    /\ nSetNext = 2

\* C8 (as stated): ParseRetryAfter equals the reference: 0 unless the status
\* is 301, 429 or 503; then 0 for an absent header, a negative integer or a
\* text that is neither an integer nor a date; n seconds for a non-negative
\* integer n; date minus now for an HTTP date.
C8_Reference(resp, now) ==
    IF resp.StatusCode \notin {301, 429, 503} THEN 0
    ELSE IF resp.RetryAfter = Absent THEN 0
    ELSE IF IsDecimalInteger(resp.RetryAfter)
         THEN (IF IntegerOf(resp.RetryAfter) < 0 THEN 0
               ELSE IntegerOf(resp.RetryAfter) * Second)
    ELSE IF resp.RetryAfter.kind = "date" THEN resp.RetryAfter.at - now
    ELSE 0

C8_ParseRetryAfterIsReference ==
    parsePc = "done" => parseOut = C8_Reference(parseIn.resp, parseIn.now)

\* The wrappers a request entered, in order, and the events that follow them.
RECURSIVE Reverse(_)
Reverse(q) == IF q = <<>> THEN <<>> ELSE Append(Reverse(Tail(q)), Head(q))
Entries(q) == [i \in 1..Len(q) |-> Event(q[i], "entry")]
Exits(q) == [i \in 1..Len(q) |-> Event(q[i], "exit")]
\* No wrapper instance was handed to a chain-building call twice.
NoWrapperReused ==
    LET all == Registered("c1") \o Registered("c2")
    IN  \A i, j \in 1..Len(all) : i # j => all[i] # all[j]

\* C9: with Pipeline, a request enters the wrappers in the reverse of their
\* registration order (for [W1, W2] then [W3]: W3, W2, W1) and then reaches the
\* base sender; the last-registered wrapper is the client's transport and each
\* wrapper's parent is the transport registered just before it.
C9_NestedOrder ==
    NoWrapperReused
        => /\ rq.state = "done"
                => LET reg == Registered(rq.client)
                   IN  SubSeq(rq.trace, 1, Len(reg) + 1)
                         = Entries(Reverse(reg))
                             \o <<Event(OrDefault(initial[rq.client]), "send")>>
           /\ \A c \in Clients :
                LET reg == Registered(c)
                IN  /\ cTransport[c] = IF reg = <<>> THEN initial[c] ELSE reg[Len(reg)]
                    /\ \A i \in 1..Len(reg) :
                         parent[reg[i]] = IF i = 1 THEN initial[c] ELSE reg[i - 1]

C9_Witness ==
    /\ groups["c1"] = << <<"A", "B">>, <<"C">> >>
    /\ rq.state = "done"
    /\ rq.client = "c1"
    /\ SubSeq(rq.trace, 1, 4)
         = <<Event("C", "entry"), Event("B", "entry"), Event("A", "entry"),
             Event("DefaultTransport", "send")>>

\* C10: with ContinueWith, one request gives the entries in the reverse of the
\* registration order, the base sender once, then the exits in registration
\* order (for [A, B] then [C]: C, B, A entries, base, A, B, C exits).
C10_SymmetricOrder ==
    rq.state = "done"
        => LET reg == Registered(rq.client)
           IN  rq.trace = Entries(Reverse(reg))
                            \o <<Event(OrDefault(initial[rq.client]), "send")>>
                            \o Exits(reg)

C10_Witness ==
    /\ groups["c1"] = << <<"A", "B">>, <<"C">> >>
    /\ rq.state = "done"
    /\ rq.client = "c1"
    /\ rq.trace
         = <<Event("C", "entry"), Event("B", "entry"), Event("A", "entry"),
             Event("DefaultTransport", "send"),
             Event("A", "exit"), Event("B", "exit"), Event("C", "exit")>>
\* C11: a Wait made while the request's context is cancelled is given that
\* context, RoundTrip returns the cancellation error, and the inner sender is
\* not invoked again.
C11_WaitHonorsCancellation ==
    (waited.called /\ waited.reqDone)
        => /\ waited.ctx = "req.Context()"
           /\ pc = "done"
           /\ ret = [resp |-> NilResponse, err |-> Canceled]

\* C12: a RoundTrip that starts after Close has been invoked on the guard fails
\* with the closed-resource error, never invokes the inner sender and never
\* increments the in-flight counter.
C12_ClosedGuardRejects ==
    \A p \in Callers :
        ctSend[p].afterClose
            => /\ ctSend[p].pc = "done"
               /\ ctSend[p].res = "ErrClosed"
               /\ ~ctSend[p].inner
               /\ ~ctSend[p].counted

C12_Witness ==
    \E p, q \in Callers :
        /\ ctSend[p].afterClose /\ ctSend[p].res = "ErrClosed"
        /\ ctSend[q].pc = "inner" /\ ctClose = "draining"

\* C13: Close does not return while a call is still inside the inner sender:
\* once Close has returned, the number of calls in flight through the transport
\* is zero and stays zero.
C13_CloseDrains ==
    closeReturned => (wg = 0 /\ \A p \in Callers : callPc[p] \notin InFlight)

\* C19: the in-flight counter equals the number of calls that have begun and
\* not yet returned, whatever path each call takes and however often it retries.
C19_CounterIsCallsInFlight ==
    wg = Cardinality({p \in Callers : callPc[p] \in InFlight})

C19_Witness ==
    /\ wg = 2
    /\ \E p, q, r \in Callers :
          callPc[p] = "waitStatus" /\ callPc[q] = "inner" /\ callPc[r] = "done"

\* C14: the number of calls that are inside the inner sender of one limiter at
\* the same time never exceeds the limit.
C14_AtMostLimitInside ==
    Cardinality({p \in Callers : lim[p].pc = "inner"}) <= Limit

C14_Witness ==
    /\ Cardinality({p \in Callers : lim[p].pc = "inner"}) = Limit
    /\ \E p \in Callers : lim[p].pc = "acquiring"

\* C15: a Send holds exactly one unit while it is inside the inner sender and
\* none before or after, whether the inner sender succeeded or failed or the
\* wait was cancelled; so the units taken are those of the calls inside, and
\* once every call has returned all units are free.
C15_UnitsReleased ==
    /\ \A p \in Callers : lim[p].units = IF lim[p].pc = "inner" THEN 1 ELSE 0
    /\ semHeld = Cardinality({p \in Callers : lim[p].pc = "inner"})
    /\ (\A p \in Callers : lim[p].pc \in {"idle", "done"}) => semHeld = 0

C15_Witness ==
    /\ semHeld = 0
    /\ \E p, q, r \in Callers :
          lim[p].res = "response" /\ lim[q].res = "error" /\ lim[r].res = "canceled"
    /\ \A p \in Callers : lim[p].pc = "done"

\* C16: with a waiter whose Wait fails after finitely many calls, every call
\* returns whatever the inner sender answers.  In finite form: once the waiter
\* of a bounded policy has failed, the call has returned (it does not go on to
\* send again, so no run of inner outcomes can keep it alive).
C16_BoundedPolicyEndsCall ==
    nWait > WaitLimit => pc = "done"

\* The wrappers and the base sender a request entering at round tripper t
\* traverses, with the parent fields as `par`; a walk longer than MaxDepth
\* wrappers is cut.
RECURSIVE Traversal(_, _, _)
Traversal(par, t, n) ==
    IF t \notin Wrappers THEN <<OrDefault(t)>>
    ELSE IF n = 0 THEN <<"more">>
    ELSE <<t>> \o Traversal(par, par[t], n - 1)

\* C17: a chain is resolved once when it is built: no chain-building call, on
\* any client and with any wrappers, changes what a request through a chain
\* built earlier traverses.
C17_ChainResolvedOnce ==
    [][\A c \in Clients :
         groups[c] # <<>>
            => Traversal(parent', cTransport[c], MaxDepth)
                 = Traversal(parent, cTransport[c], MaxDepth)]_vars

\* C18: a chain always ends in a base sender: every wrapper is invoked with a
\* non-nil next sender, a request passes no more wrappers than were registered
\* on its client, and on a client whose transport was unset the innermost
\* wrapper's next sender is the default transport.  (While a request goes
\* down, rq.cur is the next sender handed to the wrapper entered last.)
C18_ChainEndsInBase ==
    (rq.state = "down" /\ rq.stack # <<>>)
        => /\ rq.cur # "nil"
           /\ Len(rq.stack) <= Len(Registered(rq.client))
           /\ (initial[rq.client] = "nil" /\ rq.cur \notin Wrappers)
                 => rq.cur = "DefaultTransport"

\* A Retry-After value that is absent, a negative integer, or neither an
\* integer nor an HTTP date.
NoOverrideHeader(v) ==
    \/ v = Absent
    \/ IsDecimalInteger(v) /\ IntegerOf(v) < 0
    \/ ~IsDecimalInteger(v) /\ v.kind # "date"

\* C20: for a retriable-status response whose Retry-After is absent, a negative
\* integer, or neither an integer nor a date, no SetNext is made between that
\* response and the next send: the Wait uses the waiter's own delay.
C20_NoOverrideWithoutDelay ==
    (IsRetriableResponse(last) /\ NoOverrideHeader(last.resp.RetryAfter))
        => setNext = NoSetNext

C20_Witness ==
    /\ pc = "send"
    /\ waited.called
    /\ last.resp.StatusCode = 503
    /\ last.resp.RetryAfter = Text(<<"-", "1">>)
    /\ setNext = NoSetNext
    /\ nSetNext = 1

\* A retriable-status response whose Retry-After is an HTTP date before the
\* time.Now() of its handling.
PastDateResponse ==
    /\ IsRetriableResponse(last)
    /\ last.resp.RetryAfter.kind = "date"
    /\ last.resp.RetryAfter.at < parsedAt

\* C21 (as stated): for a retriable response whose Retry-After date is already
\* past, the negative delay, date minus now, is passed unchanged to SetNext
\* before the next Wait.
C21_PastDatePassedToSetNext ==
    PastDateResponse
        => setNext = [called |-> TRUE, d |-> last.resp.RetryAfter.at - parsedAt]

\* C21 (amended): for a retriable response whose Retry-After date is already
\* past, no SetNext is made before the next Wait: the engine hands a delay to
\* SetNext only when it is positive, so the negative delay is dropped.
C21_PastDateNoSetNext ==
    PastDateResponse => setNext = NoSetNext

C21_Witness ==
    /\ pc = "waitStatus"
    /\ last.resp.StatusCode = 503
    /\ last.resp.RetryAfter = HTTPDate(20)
    /\ parsedAt = 50
    /\ ParseRetryAfter(last.resp, parsedAt) < 0
    /\ setNext = NoSetNext

C23_ReturnShapes ==
    pc = "done"
        => \/ /\ ~ret.resp.nil
              /\ ret.resp.StatusCode \notin {429, 500, 503, 504}
              /\ ret.err.nil
           \/ /\ ret.resp.nil
              /\ ~ret.err.nil

C23_Witness ==
    /\ pc = "done"
    /\ ~last.resp.nil /\ ~last.err.nil
    /\ ret.resp.nil /\ ret.err = last.err
    /\ nRetriable = 1

====
